---------------------------- MODULE Spec2Model ----------------------------
(***************************************************************************)
(* Model of the venue-transformation pipeline of event_planning_AI:        *)
(*   services/geminiService.ts  cleanUpImages, getEventBlueprint,          *)
(*                              generateLayoutFromBlueprint, fallbacks     *)
(*   App.tsx                    handleGenerate and the UI state            *)
(*                                                                         *)
(* Strings whose content the code inspects or builds (data URLs, file      *)
(* names, progress messages) are sequences of tokens; "," is a token of    *)
(* its own so that cleanBase64's split(',') is computed, not assumed.      *)
(* Every `await` of the source is a scheduling point: an async function    *)
(* is one action from its entry to its first await and one action per      *)
(* resumption.                                                             *)
(***************************************************************************)
EXTENDS Integers, Sequences, FiniteSets, TLC

VARIABLES
    app,        \* React state of App: the useState cells
    hg,         \* activation of handleGenerate
    bp,         \* activation of getEventBlueprint
    cl,         \* activation of cleanUpImages
    gen,        \* activation of generateLayoutFromBlueprint
    svc,        \* the AI service as seen from the client: requests issued, calls outstanding
    progress,   \* messages delivered to the onProgress callback, in order
    call        \* a helper function applied on its own: its arguments and what it returned

vars == <<app, hg, bp, cl, gen, svc, progress, call>>

\* no helper function is being applied on its own
NoCall == [fn |-> "none"]

-----------------------------------------------------------------------------
(* Bounds *)

MaxFiles == 3            \* longest asset list handed to cleanUpImages on its own
MaxBlueprintFiles == 2   \* longest userFiles / foundFiles list of a blueprint handed to the render stage on its own
MaxUploads == 2          \* longest uploadedFiles list of the App
MaxIndex == 3            \* largest view index handed to the fallback renderer on its own
MaxTokens == 3           \* longest string (in tokens) handed to cleanBase64 on its own
MaxBatches == 2          \* file selections (drops or picker changes) the user makes in one session
MaxRuns == 2             \* generations the user starts in one session

-----------------------------------------------------------------------------
(* Strings as token sequences *)

Comma == ","

RECURSIVE IndexOfComma(_, _)
IndexOfComma(s, k) ==
    IF k > Len(s) THEN 0
    ELSE IF s[k] = Comma THEN k
    ELSE IndexOfComma(s, k + 1)

\* String.prototype.split(','): the pieces between the commas, in order
RECURSIVE split(_)
split(s) ==
    LET k == IndexOfComma(s, 1)
    IN  IF k = 0 THEN <<s>>
        ELSE <<SubSeq(s, 1, k - 1)>> \o split(SubSeq(s, k + 1, Len(s)))

\* base64String.split(',')[1] || base64String   ('' and undefined are falsy)
cleanBase64(base64String) ==
    LET pieces == split(base64String)
    IN  IF Len(pieces) >= 2 /\ pieces[2] # <<>> THEN pieces[2] ELSE base64String

\* the template `data:${mimeType};base64,${data}`
DataUrl(mimeType, data) == <<"data:", mimeType, ";base64", Comma>> \o data

-----------------------------------------------------------------------------
(* Media assets *)

SUPPORTED_IMAGE_MIME_TYPES ==
    {"image/png", "image/jpeg", "image/webp", "image/heic", "image/heif"}

IsSupported(file) == file.mimeType \in SUPPORTED_IMAGE_MIME_TYPES
IsOther(file) == ~ IsSupported(file)

UploadedFile(mimeType, type, name, data) ==
    [base64 |-> DataUrl(mimeType, <<data>>), mimeType |-> mimeType,
     type |-> type, name |-> <<name>>]

PngFile == UploadedFile("image/png", "image", "hall.png", "AAAA")
JpegFile == UploadedFile("image/jpeg", "image", "lawn.jpg", "BBBB")
GifFile == UploadedFile("image/gif", "image", "tour.gif", "GGGG")
Mp4File == UploadedFile("video/mp4", "video", "walk.mp4", "VVVV")

\* a file as cleanUpImages leaves it after a successful cleaning
CleanedPngFile ==
    [PngFile EXCEPT !.base64 = DataUrl("image/png", <<"CCCC">>),
                    !.name = <<"cleaned_">> \o PngFile.name]

Files == {PngFile, JpegFile, GifFile, Mp4File}

ListsOver(S, n) == UNION {[1..k -> S] : k \in 0..n}

filesToParts(files) ==
    [k \in 1..Len(files) |->
        [kind |-> "inline", data |-> cleanBase64(files[k].base64),
         mimeType |-> files[k].mimeType]]

-----------------------------------------------------------------------------
(* The AI service.  A response is what generateContent + result.response   *)
(* hand back: either the call throws, or a list of candidates, each with   *)
(* optional content made of parts; a part is text or inline binary data.   *)

TextPart == [kind |-> "text", data |-> <<"words">>, mimeType |-> ""]
InlinePart(data, mimeType) == [kind |-> "inline", data |-> data, mimeType |-> mimeType]

Candidate(parts) == [content |-> TRUE, parts |-> parts]
NoContentCandidate == [content |-> FALSE, parts |-> <<>>]

RespThrow == [kind |-> "throw", candidates |-> <<>>]
RespNoCandidates == [kind |-> "ok", candidates |-> <<>>]
RespNoContent == [kind |-> "ok", candidates |-> <<NoContentCandidate>>]
\* only the first candidate counts: the image of the second one is never looked at
RespTextOnly ==
    [kind |-> "ok",
     candidates |-> <<Candidate(<<TextPart>>),
                      Candidate(<<InlinePart(<<"XXXX">>, "image/png")>>)>>]
\* an image in a MIME type other than the one sent
RespImage ==
    [kind |-> "ok",
     candidates |-> <<Candidate(<<TextPart, InlinePart(<<"CCCC">>, "image/webp")>>)>>]
\* an inline part with empty data is skipped; the next one has no MIME type
RespImageNoMime ==
    [kind |-> "ok",
     candidates |-> <<Candidate(<<InlinePart(<<>>, "image/png"),
                                  InlinePart(<<"DDDD">>, ""),
                                  InlinePart(<<"EEEE">>, "image/jpeg")>>)>>]

ImageResponses ==
    {RespThrow, RespNoCandidates, RespNoContent, RespTextOnly, RespImage, RespImageNoMime}

\* part.inlineData && part.inlineData.data
HasInlineData(part) == part.kind = "inline" /\ part.data # <<>>

\* the `for (const part of content.parts) { if (...) { ...; break; } }` scan:
\* index of the first part carrying inline data, 0 when there is none
RECURSIVE FirstInlineFrom(_, _)
FirstInlineFrom(parts, k) ==
    IF k > Len(parts) THEN 0
    ELSE IF HasInlineData(parts[k]) THEN k
    ELSE FirstInlineFrom(parts, k + 1)

\* candidates && candidates.length > 0, content && content.parts, then the scan
FirstInline(response) ==
    IF Len(response.candidates) > 0 /\ response.candidates[1].content
    THEN FirstInlineFrom(response.candidates[1].parts, 1)
    ELSE 0

FirstInlinePart(response) == response.candidates[1].parts[FirstInline(response)]

\* a slip: the request is sent a second time
IssueTwice(s, stage, parts) ==
    [requests |-> s.requests \o << [stage |-> stage, parts |-> parts],
                                   [stage |-> stage, parts |-> parts] >>,
     outstanding |-> s.outstanding + 1]

\* one `await model.generateContent(parts)` is started
Issue(s, stage, parts) ==
    [requests |-> Append(s.requests, [stage |-> stage, parts |-> parts]),
     outstanding |-> s.outstanding + 1]

Answer(s) == [s EXCEPT !.outstanding = @ - 1]

NoService == [requests |-> <<>>, outstanding |-> 0]

CallsOf(stage) ==
    Cardinality({k \in 1..Len(svc.requests) : svc.requests[k].stage = stage})

-----------------------------------------------------------------------------
(* cleanUpImages *)

Null == "null"

MsgCleaningUp == <<"Cleaning up input images...">>
\* a slip in the template: the loop variable is shown as it is, counting from 0
MsgCleaningFromZero(k, n) == <<"Cleaning image ", ToString(k - 1), " of ", ToString(n), "...">>

MsgCleaning(k, n) == <<"Cleaning image ", ToString(k), " of ", ToString(n), "...">>
MsgCleanupComplete == <<"Image cleanup complete!">>

IdleClean ==
    [pc |-> "idle", files |-> <<>>, imageFiles |-> <<>>, otherFiles |-> <<>>,
     i |-> 0, cleanedImages |-> <<>>, responses |-> <<>>, failed |-> FALSE,
     raised |-> Null, ret |-> <<>>]

CleanRequest(file) ==
    <<TextPart, InlinePart(cleanBase64(file.base64), file.mimeType)>>

\* a slip in the early return: the (empty) list of cleanable assets is handed back
NothingToCleanReturnsImages(files, imageFiles) == imageFiles

\* `if (imageFiles.length === 0) return files;`
NothingToClean(files, imageFiles) == files

CleanModelFailed == "cleanup model construction failed"

\* a slip in the outer catch: the error is thrown on to the caller
CleanOuterCatchRethrows(error, files) == [raised |-> error, ret |-> <<>>]

\* the outer catch of cleanUpImages: `return files;`
CleanOuterCatch(error, files) == [raised |-> Null, ret |-> files]

\* entry of cleanUpImages up to its first await (or its return)
cleanUpImages(files, prog, constructionThrows) ==
    LET imageFiles == SelectSeq(files, IsSupported)
        otherFiles == SelectSeq(files, IsOther)
        entered == [IdleClean EXCEPT !.files = files, !.imageFiles = imageFiles,
                                     !.otherFiles = otherFiles]
    IN  IF Len(imageFiles) = 0
        THEN /\ cl' = [entered EXCEPT !.pc = "done", !.ret = NothingToClean(files, imageFiles)]
             /\ progress' = Append(prog, MsgCleaningUp)
             /\ svc' = svc
        ELSE IF constructionThrows
        THEN \* genAI.getGenerativeModel throws: the outer catch returns the input
             /\ LET out == CleanOuterCatch(CleanModelFailed, files)
                IN  cl' = [entered EXCEPT !.pc = "done", !.failed = TRUE,
                                          !.raised = out.raised, !.ret = out.ret]
             /\ progress' = Append(prog, MsgCleaningUp)
             /\ svc' = svc
        ELSE /\ cl' = [entered EXCEPT !.pc = "await"]
             /\ progress' = prog \o <<MsgCleaningUp, MsgCleaning(1, Len(imageFiles))>>
             /\ svc' = Issue(svc, "clean", CleanRequest(imageFiles[1]))

\* a slip in the success branch: the name is left as it was
CleanedFileForKeepsName(file, response) ==
    IF FirstInline(response) # 0
    THEN LET part == FirstInlinePart(response)
             mimeType == IF part.mimeType # "" THEN part.mimeType ELSE file.mimeType
         IN  [file EXCEPT !.base64 = DataUrl(mimeType, part.data)]
    ELSE file

\* a slip in the success branch: the kind of the asset is written to its MIME type
CleanedFileForMimeFromKind(file, response) ==
    IF FirstInline(response) # 0
    THEN LET part == FirstInlinePart(response)
             mimeType == IF part.mimeType # "" THEN part.mimeType ELSE file.mimeType
         IN  [file EXCEPT !.base64 = DataUrl(mimeType, part.data),
                          !.name = <<"cleaned_">> \o file.name,
                          !.mimeType = file.type]
    ELSE file

\* the asset pushed when the call returned a response
CleanedFileFor(file, response) ==
    IF FirstInline(response) # 0
    THEN LET part == FirstInlinePart(response)
             mimeType == IF part.mimeType # "" THEN part.mimeType ELSE file.mimeType
         IN  [file EXCEPT !.base64 = DataUrl(mimeType, part.data),
                          !.name = <<"cleaned_">> \o file.name]
    ELSE file

\* a slip in the per-asset catch: the asset is marked cleaned although nothing came back
CleanCatchMarksCleaned(file) == [file EXCEPT !.name = <<"cleaned_">> \o file.name]

\* the asset pushed by the per-asset catch
CleanCatch(file) == file

\* a slip in the final spread: pass-through assets first
CleanResultOthersFirst(cleanedImages, otherFiles) == otherFiles \o cleanedImages

\* what cleanUpImages returns once the loop is over
CleanResult(cleanedImages, otherFiles) == cleanedImages \o otherFiles

\* resumption of cleanUpImages when the service answers the outstanding call
cleanUpImagesResume(response) ==
    /\ cl.pc = "await"
    /\ LET file == cl.imageFiles[cl.i + 1]
           n == Len(cl.imageFiles)
           pushed == IF response.kind = "throw" THEN CleanCatch(file)
                     ELSE CleanedFileFor(file, response)
           cleanedImages == Append(cl.cleanedImages, pushed)
           next == [cl EXCEPT !.i = @ + 1, !.cleanedImages = cleanedImages,
                              !.responses = Append(@, response)]
       IN  IF next.i < n
           THEN /\ cl' = next
                /\ progress' = Append(progress, MsgCleaning(next.i + 1, n))
                /\ svc' = Issue(Answer(svc), "clean", CleanRequest(cl.imageFiles[next.i + 1]))
           ELSE /\ cl' = [next EXCEPT !.pc = "done",
                                      !.ret = CleanResult(cleanedImages, cl.otherFiles)]
                /\ progress' = Append(progress, MsgCleanupComplete)
                /\ svc' = Answer(svc)


-----------------------------------------------------------------------------
(* Activations at rest *)

NoBlueprintData ==
    [blueprint |-> <<>>, userFiles |-> <<>>, foundFiles |-> <<>>, mediaAnalysis |-> <<>>]

\* LocationType | null: a free-form string, a coordinate pair, or nothing
NoLocation == [kind |-> "null", text |-> <<>>]
AddressLocation == [kind |-> "string", text |-> <<"12 Garden Lane">>]
CoordinateLocation == [kind |-> "coordinates", text |-> <<"34.05", "-118.24">>]

\* GenerationResult | null
NoResult == [present |-> FALSE, images |-> <<>>]
Result(images) == [present |-> TRUE, images |-> images]

IdleApp ==
    [uploadedFiles |-> <<>>, location |-> NoLocation, venueWebsite |-> <<>>,
     prompt |-> <<>>, generationResult |-> NoResult, isLoading |-> FALSE,
     loadingMessage |-> <<>>, error |-> Null]

IdleHandler == [pc |-> "idle"]

IdleBlueprint ==
    [pc |-> "idle", uploadedFiles |-> <<>>, prompt |-> <<>>, location |-> NoLocation,
     venueWebsite |-> <<>>, cleanedFiles |-> <<>>, cleanupFailed |-> FALSE,
     cleanupThrew |-> FALSE, caught |-> Null, raised |-> Null,
     returned |-> FALSE, ret |-> NoBlueprintData]

IdleGen ==
    [pc |-> "idle", blueprintData |-> NoBlueprintData, cleanedImages |-> <<>>,
     venueImages |-> <<>>, i |-> 0, generatedImages |-> <<>>, responses |-> <<>>,
     caught |-> Null, raised |-> Null, images |-> <<>>]

-----------------------------------------------------------------------------
(* Fallback renderer *)

\* btoa: an encoding of the markup, never the markup itself
btoa(doc) == <<"base64(">> \o doc \o <<")">>

FloorPlanMarkup == <<"<svg floor plan: room outline, stage, 8 round tables, bar, dance floor>">>
MainSpaceMarkup == <<"<svg main space: perspective room, stage, tables, string lights>">>
SideViewMarkup == <<"<svg side view: elevation, stage, seating rows, ceiling truss>">>

SvgDataUrl(doc) == <<"data:image/svg+xml;base64", Comma>> \o btoa(doc)

\* a slip: the blueprint text is drawn into the floor plan
generateFloorPlanSVGDrawsBlueprint(blueprintData) ==
    SvgDataUrl(FloorPlanMarkup \o blueprintData.blueprint)

generateFloorPlanSVG(blueprintData) == SvgDataUrl(FloorPlanMarkup)
generateMainSpaceSVG(blueprintData) == SvgDataUrl(MainSpaceMarkup)
generateSideViewSVG(blueprintData) == SvgDataUrl(SideViewMarkup)

PlaceholderColors == <<"#e3f2fd", "#f3e5f5", "#e8f5e9">>

createPlaceholderImage(label, index) ==
    LET color == PlaceholderColors[(index % Len(PlaceholderColors)) + 1]
    IN  SvgDataUrl(<<"<svg placeholder card ", color, " ", label, ">">>)

generateFallbackSVG(label, blueprintData, index) ==
    CASE label = "Floor Plan" -> generateFloorPlanSVG(blueprintData)
      [] label = "Main Event Space" -> generateMainSpaceSVG(blueprintData)
      [] label = "Side View" -> generateSideViewSVG(blueprintData)
      [] OTHER -> createPlaceholderImage(label, index)

-----------------------------------------------------------------------------
(* generateLayoutFromBlueprint *)

MsgGenerating == <<"Generating venue transformations with Nano Banana AI...">>
\* a slip in the template: the view is not named
MsgGeneratingViewUnnamed(label) == <<"Generating ", "image", " with Nano Banana...">>

MsgGeneratingView(label) == <<"Generating ", label, " with Nano Banana...">>
MsgTransformationComplete == <<"Venue transformation complete!">>

NoVenueImages == "No venue images found to transform"
NoCandidates == "No response candidates from Nano Banana"

toLowerCase(label) ==
    CASE label = "Floor Plan" -> "floor plan"
      [] label = "Main Event Space" -> "main event space"
      [] label = "Side View" -> "side view"
      [] OTHER -> label

\* label and prompt template of each view; the template embeds the blueprint text
viewPrompts(blueprintData) ==
    << [label |-> "Floor Plan",
        prompt |-> <<"TOP-DOWN FLOOR PLAN ... VENUE ANALYSIS FROM PHOTOS: ">>
                   \o blueprintData.blueprint],
       [label |-> "Main Event Space",
        prompt |-> <<"PHOTOREALISTIC MAIN VIEW, 7:00 PM ... VENUE ANALYSIS: ">>
                   \o blueprintData.blueprint],
       [label |-> "Side View",
        prompt |-> <<"PHOTOREALISTIC SIDE VIEW, 7:00 PM ... VENUE ANALYSIS: ">>
                   \o blueprintData.blueprint] >>

\* the parts of the request for one view: the full prompt, then every venue image
\* a slip: the cleaned list is attached whether or not it was the one selected
ViewRequestAttachesCleaned(view, venueImages, cleanedImages) ==
    <<[kind |-> "text", data |-> view.prompt, mimeType |-> ""]>>
    \o filesToParts(cleanedImages)

ViewRequest(view, venueImages, cleanedImages) ==
    LET fullPrompt ==
            view.prompt
            \o <<"Number of venue images provided: ", ToString(Len(venueImages)),
                 "Image quality: ",
                 IF Len(cleanedImages) > 0
                 THEN "Pre-processed and cleaned (UI elements removed)"
                 ELSE "Original uploads",
                 toLowerCase(view.label)>>
    IN  <<[kind |-> "text", data |-> fullPrompt, mimeType |-> ""]>>
        \o filesToParts(venueImages)

GeneratedImage(imageUrl, description, label) ==
    [imageUrl |-> imageUrl, description |-> description, label |-> label]

\* a slip in the outer catch: the error is passed on to the caller
GenOuterCatchRethrows(error, blueprintData) == [raised |-> error, images |-> <<>>]

\* the outer catch: the complete fallback result, nothing is raised
GenOuterCatch(error, blueprintData) ==
    [raised |-> Null,
     images |->
        << GeneratedImage(generateFloorPlanSVG(blueprintData),
                          <<"Floor plan layout (fallback visualization)">>, "Floor Plan"),
           GeneratedImage(generateMainSpaceSVG(blueprintData),
                          <<"Main space layout (fallback visualization)">>, "Main Event Space"),
           GeneratedImage(generateSideViewSVG(blueprintData),
                          <<"Side elevation view (fallback visualization)">>, "Side View") >>]

\* a slip in the per-view catch: the generic card instead of the view's drawing
ViewCatchUsesPlaceholder(generatedImages, view, blueprintData, i) ==
    Append(generatedImages,
           GeneratedImage(createPlaceholderImage(view.label, i),
                          <<view.label, " visualization">>, view.label))

\* the per-view catch
ViewCatch(generatedImages, view, blueprintData, i) ==
    Append(generatedImages,
           GeneratedImage(generateFallbackSVG(view.label, blueprintData, i),
                          <<view.label, " visualization">>, view.label))

\* a slip after the scan: a response without image data adds nothing
ViewFromCandidatesNoFallback(generatedImages, view, response, blueprintData, i) ==
    IF FirstInline(response) # 0
    THEN LET part == FirstInlinePart(response)
             mimeType == IF part.mimeType # "" THEN part.mimeType ELSE "image/png"
         IN  Append(generatedImages,
                    GeneratedImage(DataUrl(mimeType, part.data),
                                   <<"AI-generated ", toLowerCase(view.label),
                                     " based on your venue photos">>,
                                   view.label))
    ELSE generatedImages

\* a slip in the scan: without the `break` every inline part is pushed
RECURSIVE PushEveryInline(_, _, _, _)
PushEveryInline(generatedImages, view, parts, k) ==
    IF k > Len(parts) THEN generatedImages
    ELSE PushEveryInline(
             IF HasInlineData(parts[k])
             THEN Append(generatedImages,
                         GeneratedImage(DataUrl(IF parts[k].mimeType # "" THEN parts[k].mimeType
                                                ELSE "image/png", parts[k].data),
                                        <<"AI-generated ", toLowerCase(view.label),
                                          " based on your venue photos">>,
                                        view.label))
             ELSE generatedImages,
             view, parts, k + 1)

ViewFromCandidatesNoBreak(generatedImages, view, response, blueprintData, i) ==
    LET scanned ==
            IF FirstInline(response) # 0
            THEN PushEveryInline(generatedImages, view, response.candidates[1].parts, 1)
            ELSE generatedImages
    IN  IF Len(scanned) = i
        THEN Append(scanned,
                    GeneratedImage(generateFallbackSVG(view.label, blueprintData, i),
                                   <<view.label, " visualization (fallback)">>, view.label))
        ELSE scanned

\* the try body once candidates exist: the scan for inline data, then the
\* `generatedImages.length === i` fallback
ViewFromCandidates(generatedImages, view, response, blueprintData, i) ==
    LET scanned ==
            IF FirstInline(response) # 0
            THEN LET part == FirstInlinePart(response)
                     mimeType == IF part.mimeType # "" THEN part.mimeType ELSE "image/png"
                 IN  Append(generatedImages,
                            GeneratedImage(DataUrl(mimeType, part.data),
                                           <<"AI-generated ", toLowerCase(view.label),
                                             " based on your venue photos">>,
                                           view.label))
            ELSE generatedImages
    IN  IF Len(scanned) = i
        THEN Append(scanned,
                    GeneratedImage(generateFallbackSVG(view.label, blueprintData, i),
                                   <<view.label, " visualization (fallback)">>, view.label))
        ELSE scanned

\* entry of generateLayoutFromBlueprint up to its first await (or its return)
generateLayoutFromBlueprint(blueprintData, prog, constructionThrows) ==
    LET cleanedImages == SelectSeq(blueprintData.foundFiles, IsSupported)
        originalImages == SelectSeq(blueprintData.userFiles, IsSupported)
        venueImages == IF Len(cleanedImages) > 0 THEN cleanedImages ELSE originalImages
        entered == [IdleGen EXCEPT !.blueprintData = blueprintData]
        views == viewPrompts(blueprintData)
    IN  IF constructionThrows \/ Len(venueImages) = 0
        THEN \* getGenerativeModel throws, or `throw new Error(NoVenueImages)`: both
             \* inside the try, so the outer catch handles them
             LET error == IF constructionThrows THEN "model construction failed"
                          ELSE NoVenueImages
                 outcome == GenOuterCatch(error, blueprintData)
             IN  /\ gen' = [entered EXCEPT !.pc = "done", !.caught = error,
                                           !.raised = outcome.raised,
                                           !.images = outcome.images]
                 /\ progress' = Append(prog, MsgGenerating)
                 /\ svc' = svc
        ELSE /\ gen' = [entered EXCEPT !.pc = "await", !.cleanedImages = cleanedImages,
                                       !.venueImages = venueImages]
             /\ progress' = prog \o <<MsgGenerating, MsgGeneratingView(views[1].label)>>
             /\ svc' = Issue(svc, "view", ViewRequest(views[1], venueImages, cleanedImages))

\* resumption of generateLayoutFromBlueprint when the service answers the outstanding call
generateLayoutFromBlueprintResume(response) ==
    /\ gen.pc = "await"
    /\ LET views == viewPrompts(gen.blueprintData)
           view == views[gen.i + 1]
           generatedImages ==
               IF response.kind = "throw" \/ Len(response.candidates) = 0
               THEN \* the call threw, or `throw new Error(NoCandidates)`
                    ViewCatch(gen.generatedImages, view, gen.blueprintData, gen.i)
               ELSE ViewFromCandidates(gen.generatedImages, view, response,
                                       gen.blueprintData, gen.i)
           next == [gen EXCEPT !.i = @ + 1, !.generatedImages = generatedImages,
                               !.responses = Append(@, response)]
       IN  IF next.i < Len(views)
           THEN /\ gen' = next
                /\ progress' = Append(progress, MsgGeneratingView(views[next.i + 1].label))
                /\ svc' = Issue(Answer(svc), "view",
                                ViewRequest(views[next.i + 1], gen.venueImages, gen.cleanedImages))
           ELSE /\ gen' = [next EXCEPT !.pc = "done", !.images = generatedImages]
                /\ progress' = Append(progress, MsgTransformationComplete)
                /\ svc' = Answer(svc)

-----------------------------------------------------------------------------
(* getEventBlueprint *)

MsgAnalyzing == <<"Analyzing venue with AI...">>
MsgCreatingBlueprint == <<"Creating event blueprint...">>

FailedToAnalyze == "Failed to analyze venue. Please check your images and try again."

\* what the text model's generateContent + response.text() hand back: the call
\* throws, the text is there, or text() throws because the response was blocked
TextThrows == [kind |-> "throw", text |-> <<>>, error |-> "fetch failed"]
TextBlocked == [kind |-> "blocked", text |-> <<>>, error |-> "Text not available. Response was blocked"]
TextOk == [kind |-> "ok", text |-> <<"Main hall is rectangular 80x50ft, ", "stage on north wall">>, error |-> Null]

TextResponses == {TextThrows, TextBlocked, TextOk}

\* location rendered into the prompt
LocationInPrompt(location) ==
    CASE location.kind = "null" -> <<"Not specified">>
      [] location.kind = "string" -> location.text
      [] OTHER -> <<"Coordinates: ", location.text[1], ", ", location.text[2]>>

\* location rendered into the media analysis summary
LocationInSummary(location) ==
    CASE location.kind = "null" -> <<"Not specified">>
      [] location.kind = "string" -> location.text
      [] OTHER -> <<location.text[1], ", ", location.text[2]>>

OrDefault(text, default) == IF text # <<>> THEN text ELSE <<default>>

blueprintPrompt(prompt, location, venueWebsite) ==
    <<"You are an expert venue analyst and event planner ... Event Request: ">>
    \o OrDefault(prompt, "General event planning")
    \o <<"Location: ">> \o LocationInPrompt(location)
    \o <<"Venue Website: ">> \o OrDefault(venueWebsite, "Not provided")
    \o <<"CRITICAL RULES ... STEP 1 ... STEP 5: EVENT-SPECIFIC LAYOUT For the requested event (">>
    \o prompt \o <<") ... STEP 6: VENUE REALITY CHECK ...">>

BlueprintRequest(cleanedFiles, prompt, location, venueWebsite) ==
    <<[kind |-> "text", data |-> blueprintPrompt(prompt, location, venueWebsite),
       mimeType |-> ""]>>
    \o filesToParts(cleanedFiles)

mediaAnalysis(cleanedFiles, prompt, location, venueWebsite) ==
    <<"Venue Analysis Complete: - ", ToString(Len(cleanedFiles)), " venue images analyzed",
      " - Location: ">> \o LocationInSummary(location)
    \o <<" - Website: ">> \o OrDefault(venueWebsite, "Not provided")
    \o <<" - Event Type: ">> \o prompt
    \o <<" - AI Analysis: Completed successfully using Gemini">>

\* a slip in the catch: the caught error is thrown on as it is
BlueprintCatchRethrows(error) == error

\* the catch of getEventBlueprint: a new Error with the fixed message
BlueprintCatch(error) == FailedToAnalyze

\* a slip: the opening message is not sent
AnnounceAnalysisDropped(prog) == prog

\* `onProgress("Analyzing venue with AI...");` ahead of the try block
AnnounceAnalysis(prog) == Append(prog, MsgAnalyzing)

\* entry of getEventBlueprint: it runs into cleanUpImages, up to that function's
\* first await (or its return, which `await` still defers)
getEventBlueprint(uploadedFiles, prompt, location, venueWebsite, prog, cleanConstructionThrows) ==
    /\ bp' = [IdleBlueprint EXCEPT !.pc = "awaitClean", !.uploadedFiles = uploadedFiles,
                                   !.prompt = prompt, !.location = location,
                                   !.venueWebsite = venueWebsite]
    /\ cleanUpImages(uploadedFiles, AnnounceAnalysis(prog), cleanConstructionThrows)

\* resumption of getEventBlueprint when cleanUpImages has returned
getEventBlueprintAfterClean(constructionThrows) ==
    /\ bp.pc = "awaitClean"
    /\ cl.pc = "done"
    /\ LET seen == [bp EXCEPT !.cleanupFailed = cl.failed,
                              !.cleanupThrew = \E k \in 1..Len(cl.responses) :
                                                   cl.responses[k].kind = "throw"]
       IN
       IF cl.raised # Null
       THEN \* `await cleanUpImages(...)` rejects inside the try: the catch takes it
            /\ bp' = [seen EXCEPT !.pc = "done", !.caught = cl.raised,
                                  !.raised = BlueprintCatch(cl.raised)]
            /\ UNCHANGED <<svc, progress>>
       ELSE IF constructionThrows
       THEN \* genAI.getGenerativeModel({ model: ANALYSIS_MODEL }) throws
            /\ bp' = [seen EXCEPT !.pc = "done", !.cleanedFiles = cl.ret,
                                  !.caught = "model construction failed",
                                  !.raised = BlueprintCatch("model construction failed")]
            /\ UNCHANGED <<svc, progress>>
       ELSE /\ bp' = [seen EXCEPT !.pc = "awaitText", !.cleanedFiles = cl.ret]
            /\ progress' = Append(progress, MsgCreatingBlueprint)
            /\ svc' = Issue(svc, "text",
                            BlueprintRequest(cl.ret, bp.prompt, bp.location, bp.venueWebsite))
    /\ cl' = IdleClean

\* resumption of getEventBlueprint when the text model answers
getEventBlueprintResume(response) ==
    /\ bp.pc = "awaitText"
    /\ svc' = Answer(svc)
    /\ IF response.kind = "ok"
       THEN bp' = [bp EXCEPT !.pc = "done", !.returned = TRUE,
                             !.ret = [blueprint |-> response.text,
                                      userFiles |-> bp.uploadedFiles,
                                      foundFiles |-> bp.cleanedFiles,
                                      mediaAnalysis |->
                                          mediaAnalysis(bp.cleanedFiles, bp.prompt,
                                                        bp.location, bp.venueWebsite)]]
       ELSE bp' = [bp EXCEPT !.pc = "done", !.caught = response.error,
                             !.raised = BlueprintCatch(response.error)]

-----------------------------------------------------------------------------
(* App: handleGenerate *)

PleaseUpload == "Please upload at least one venue image or provide location/website."
PleaseDescribe == "Please describe your event vision."

Space == " "

\* String.prototype.trim: leading and trailing blanks removed
RECURSIVE trimStart(_)
trimStart(s) == IF s # <<>> /\ Head(s) = Space THEN trimStart(Tail(s)) ELSE s

RECURSIVE trimEnd(_)
trimEnd(s) ==
    IF s # <<>> /\ s[Len(s)] = Space THEN trimEnd(SubSeq(s, 1, Len(s) - 1)) ELSE s

trim(s) == trimEnd(trimStart(s))

Last(s) == s[Len(s)]

\* a slip in the first check: the negation before venueWebsite.trim() is lost
NothingProvidedLostNegation(a) ==
    /\ Len(a.uploadedFiles) = 0
    /\ a.location.kind = "null"
    /\ trim(a.venueWebsite) # <<>>

\* uploadedFiles.length === 0 && !location && !venueWebsite.trim()
NothingProvided(a) ==
    /\ Len(a.uploadedFiles) = 0
    /\ a.location.kind = "null"
    /\ trim(a.venueWebsite) = <<>>

\* a slip: the handler has no `finally`, the loading state is left as it is
FinallyMissing(a) == a

\* the `finally` of handleGenerate
Finally(a) == [a EXCEPT !.isLoading = FALSE, !.loadingMessage = <<>>]

\* handleGenerate from its entry to its first await (or its return)
handleGenerate(cleanConstructionThrows) ==
    /\ hg.pc = "idle"
    /\ IF NothingProvided(app)
       THEN /\ app' = [app EXCEPT !.error = PleaseUpload]
            /\ hg' = [hg EXCEPT !.pc = "done"]
            /\ UNCHANGED <<bp, cl, svc, progress>>
       ELSE IF app.prompt = <<>>
       THEN /\ app' = [app EXCEPT !.error = PleaseDescribe]
            /\ hg' = [hg EXCEPT !.pc = "done"]
            /\ UNCHANGED <<bp, cl, svc, progress>>
       ELSE /\ getEventBlueprint(app.uploadedFiles, app.prompt, app.location,
                                 app.venueWebsite, progress, cleanConstructionThrows)
            /\ app' = [app EXCEPT !.isLoading = TRUE, !.error = Null,
                                  !.generationResult = NoResult,
                                  !.loadingMessage = Last(progress')]
            /\ hg' = [hg EXCEPT !.pc = "awaitBlueprint"]
    /\ UNCHANGED gen

\* resumption of handleGenerate when getEventBlueprint has settled: the catch
\* and finally, or the entry of generateLayoutFromBlueprint
handleGenerateAfterBlueprint(constructionThrows) ==
    /\ hg.pc = "awaitBlueprint"
    /\ bp.pc = "done"
    /\ IF bp.returned
       THEN /\ generateLayoutFromBlueprint(bp.ret, progress, constructionThrows)
            /\ app' = [app EXCEPT !.loadingMessage = Last(progress')]
            /\ hg' = [hg EXCEPT !.pc = "awaitLayout"]
       ELSE /\ app' = Finally([app EXCEPT !.error = bp.raised])
            /\ hg' = [hg EXCEPT !.pc = "done"]
            /\ UNCHANGED <<gen, svc, progress>>
    /\ bp' = [bp EXCEPT !.pc = "settled"]
    /\ UNCHANGED cl

\* resumption of handleGenerate when generateLayoutFromBlueprint has settled
handleGenerateAfterLayout ==
    /\ hg.pc = "awaitLayout"
    /\ gen.pc = "done"
    /\ app' = Finally(IF gen.raised = Null
                      THEN [app EXCEPT !.generationResult = Result(gen.images)]
                      ELSE [app EXCEPT !.error = gen.raised])
    /\ hg' = [hg EXCEPT !.pc = "done"]
    /\ gen' = [gen EXCEPT !.pc = "settled"]
    /\ UNCHANGED <<bp, cl, svc, progress>>

-----------------------------------------------------------------------------
(* cleanUpImages on its own: any asset list, any outcome of every call *)

InitClean ==
    /\ call = NoCall
    /\ app = IdleApp
    /\ hg = IdleHandler
    /\ bp = IdleBlueprint
    /\ gen = IdleGen
    /\ svc = NoService
    /\ progress = <<>>
    /\ \E files \in ListsOver(Files, MaxFiles) :
          cl = [IdleClean EXCEPT !.pc = "ready", !.files = files]

CallCleanUpImages ==
    /\ cl.pc = "ready"
    /\ \E constructionThrows \in BOOLEAN :
          cleanUpImages(cl.files, progress, constructionThrows)
    /\ UNCHANGED <<app, hg, bp, gen>>
    /\ UNCHANGED call

AnswerCleanUpImages ==
    /\ bp.pc = "idle"
    /\ \E response \in ImageResponses : cleanUpImagesResume(response)
    /\ UNCHANGED <<app, hg, bp, gen>>
    /\ UNCHANGED call

NextClean == CallCleanUpImages \/ AnswerCleanUpImages

SpecClean == InitClean /\ [][NextClean]_vars

-----------------------------------------------------------------------------
(* The third copy of cleanUpImages in the service file: the cleanable assets
   are handed to `imageFilesToClean.map(async (file) => ...)`.  map invokes the
   callback for every asset in turn and each invocation runs up to its first
   await, so every call is started before any of them has settled.  The source
   breaks off inside the callback; what the callback does with its answer is
   taken from the description of the pre-cleaner. *)

IdleParallelClean ==
    [pc |-> "idle", files |-> <<>>, imageFiles |-> <<>>, otherFiles |-> <<>>,
     pending |-> {}, cleanedImages |-> <<>>, ret |-> <<>>]

RECURSIVE IssueAll(_, _, _)
IssueAll(s, imageFiles, k) ==
    IF k > Len(imageFiles) THEN s
    ELSE IssueAll(Issue(s, "clean", CleanRequest(imageFiles[k])), imageFiles, k + 1)

\* entry of cleanUpImages (third copy) up to the await on the mapped promises
cleanUpImagesParallel(files, prog) ==
    LET imageFilesToClean == SelectSeq(files, IsSupported)
        otherFiles == SelectSeq(files, IsOther)
        entered == [IdleParallelClean EXCEPT !.files = files,
                                             !.imageFiles = imageFilesToClean,
                                             !.otherFiles = otherFiles]
    IN  /\ progress' = Append(prog, MsgCleaningUp)
        /\ IF Len(imageFilesToClean) = 0
           THEN /\ cl' = [entered EXCEPT !.pc = "done", !.ret = files]
                /\ svc' = svc
           ELSE /\ cl' = [entered EXCEPT !.pc = "await",
                                         !.pending = 1..Len(imageFilesToClean),
                                         !.cleanedImages = imageFilesToClean]
                /\ svc' = IssueAll(svc, imageFilesToClean, 1)

\* the call started for asset k settles; the last one to settle ends the wait
cleanUpImagesParallelResume(k, response) ==
    /\ cl.pc = "await"
    /\ k \in cl.pending
    /\ LET file == cl.imageFiles[k]
           settled == IF response.kind = "throw" THEN CleanCatch(file)
                      ELSE CleanedFileFor(file, response)
           next == [cl EXCEPT !.pending = @ \ {k}, !.cleanedImages[k] = settled]
       IN  cl' = IF next.pending = {}
                 THEN [next EXCEPT !.pc = "done",
                                   !.ret = CleanResult(next.cleanedImages, cl.otherFiles)]
                 ELSE next
    /\ svc' = Answer(svc)
    /\ UNCHANGED progress

InitCleanParallel ==
    /\ call = NoCall
    /\ app = IdleApp
    /\ hg = IdleHandler
    /\ bp = IdleBlueprint
    /\ gen = IdleGen
    /\ svc = NoService
    /\ progress = <<>>
    /\ \E files \in ListsOver(Files, MaxFiles) :
          cl = [IdleParallelClean EXCEPT !.pc = "ready", !.files = files]

CallCleanUpImagesParallel ==
    /\ cl.pc = "ready"
    /\ cleanUpImagesParallel(cl.files, progress)
    /\ UNCHANGED <<app, hg, bp, gen>>
    /\ UNCHANGED call

AnswerCleanUpImagesParallel ==
    /\ \E k \in cl.pending, response \in ImageResponses :
          cleanUpImagesParallelResume(k, response)
    /\ UNCHANGED <<app, hg, bp, gen>>
    /\ UNCHANGED call

NextCleanParallel == CallCleanUpImagesParallel \/ AnswerCleanUpImagesParallel

SpecCleanParallel == InitCleanParallel /\ [][NextCleanParallel]_vars

-----------------------------------------------------------------------------
(* generateLayoutFromBlueprint on its own: any blueprint, any outcome of every call *)

RenderFiles == {PngFile, CleanedPngFile, Mp4File}

Blueprints ==
    [blueprint : {<<"venue analysis">>},
     userFiles : ListsOver(RenderFiles, MaxBlueprintFiles),
     foundFiles : ListsOver(RenderFiles, MaxBlueprintFiles),
     mediaAnalysis : {<<"Venue Analysis Complete">>}]

InitRender ==
    /\ call = NoCall
    /\ app = IdleApp
    /\ hg = IdleHandler
    /\ bp = IdleBlueprint
    /\ cl = IdleClean
    /\ svc = NoService
    /\ progress = <<>>
    /\ \E blueprintData \in Blueprints :
          gen = [IdleGen EXCEPT !.pc = "ready", !.blueprintData = blueprintData]

CallGenerateLayout ==
    /\ gen.pc = "ready"
    /\ \E constructionThrows \in BOOLEAN :
          generateLayoutFromBlueprint(gen.blueprintData, progress, constructionThrows)
    /\ UNCHANGED <<app, hg, bp, cl>>
    /\ UNCHANGED call

AnswerGenerateLayout ==
    /\ hg.pc = "idle"
    /\ \E response \in ImageResponses : generateLayoutFromBlueprintResume(response)
    /\ UNCHANGED <<app, hg, bp, cl>>
    /\ UNCHANGED call

NextRender == CallGenerateLayout \/ AnswerGenerateLayout

SpecRender == InitRender /\ [][NextRender]_vars

-----------------------------------------------------------------------------
(* generateFallbackSVG on its own: any label, blueprint and index, applied twice *)

FallbackLabels == {"Floor Plan", "Main Event Space", "Side View", "Lobby", "Ceiling Plan"}

FallbackBlueprints ==
    {[NoBlueprintData EXCEPT !.blueprint = <<"venue analysis">>],
     [NoBlueprintData EXCEPT !.blueprint = <<"rooftop, 40x30ft">>, !.userFiles = <<PngFile>>]}

InitFallback ==
    /\ call = [fn |-> "generateFallbackSVG", applied |-> <<>>]
    /\ app = IdleApp
    /\ hg = IdleHandler
    /\ bp = IdleBlueprint
    /\ cl = IdleClean
    /\ gen = IdleGen
    /\ svc = NoService
    /\ progress = <<>>

CallGenerateFallbackSVG ==
    /\ Len(call.applied) < 2
    /\ \E label \in FallbackLabels, blueprintData \in FallbackBlueprints, index \in 0..MaxIndex :
          call' = [call EXCEPT !.applied =
                      Append(@, [label |-> label, blueprintData |-> blueprintData,
                                 index |-> index,
                                 out |-> generateFallbackSVG(label, blueprintData, index)])]
    /\ UNCHANGED <<app, hg, bp, cl, gen, svc, progress>>

NextFallback == CallGenerateFallbackSVG

SpecFallback == InitFallback /\ [][NextFallback]_vars

-----------------------------------------------------------------------------
(* ImageUploader.removeFile: the uploader is rendered with files = uploadedFiles
   and onFilesUpdate = setUploadedFiles, one remove button per listed asset *)

\* files.filter((_, i) => keep(i)) from position i (0-based) on
RECURSIVE FilterFrom(_, _, _)
FilterFrom(files, index, i) ==
    IF i >= Len(files) THEN <<>>
    ELSE (IF i # index THEN <<files[i + 1]>> ELSE <<>>) \o FilterFrom(files, index, i + 1)

\* a slip in the predicate: `i === index`
RECURSIVE KeepOnlyFrom(_, _, _)
KeepOnlyFrom(files, index, i) ==
    IF i >= Len(files) THEN <<>>
    ELSE (IF i = index THEN <<files[i + 1]>> ELSE <<>>) \o KeepOnlyFrom(files, index, i + 1)

removeFileKeepsOnlyIndex(files, index) == KeepOnlyFrom(files, index, 0)

\* `const newFiles = files.filter((_, i) => i !== index);`
removeFile(files, index) == FilterFrom(files, index, 0)

InitUploader ==
    /\ call = [fn |-> "removeFile", files |-> <<>>, index |-> 0, applied |-> FALSE]
    /\ \E uploadedFiles \in ListsOver(Files, MaxFiles) :
          app = [IdleApp EXCEPT !.uploadedFiles = uploadedFiles]
    /\ hg = IdleHandler
    /\ bp = IdleBlueprint
    /\ cl = IdleClean
    /\ gen = IdleGen
    /\ svc = NoService
    /\ progress = <<>>

\* the remove button of the asset at position index is clicked
RemoveFile ==
    /\ \E index \in 0..(Len(app.uploadedFiles) - 1) :
          /\ app' = [app EXCEPT !.uploadedFiles = removeFile(@, index)]
          /\ call' = [call EXCEPT !.files = app.uploadedFiles, !.index = index,
                                  !.applied = TRUE]
    /\ UNCHANGED <<hg, bp, cl, gen, svc, progress>>

NextUploader == RemoveFile

SpecUploader == InitUploader /\ [][NextUploader]_vars

-----------------------------------------------------------------------------
(* The App with the blueprint review step: getEventBlueprint has returned,
   handleGetBlueprint has stored the blueprint and opened the review dialog;
   the reviewer edits the text, then confirms or cancels *)

\* BlueprintData | null
NoReviewData == [present |-> FALSE, data |-> NoBlueprintData]
ReviewData(blueprintData) == [present |-> TRUE, data |-> blueprintData]

\* what getEventBlueprint can have returned: userFiles as uploaded, foundFiles
\* as cleanUpImages left them
ReviewBlueprints ==
    { [blueprint |-> <<"venue analysis">>, userFiles |-> pair[1], foundFiles |-> pair[2],
       mediaAnalysis |-> <<"Venue Analysis Complete">>] :
      pair \in { <<<<>>, <<>>>>,
                 <<<<Mp4File>>, <<Mp4File>>>>,
                 <<<<PngFile>>, <<PngFile>>>>,
                 <<<<PngFile>>, <<CleanedPngFile>>>>,
                 <<<<Mp4File, PngFile>>, <<CleanedPngFile, Mp4File>>>> } }

\* what the reviewer can leave in the textarea
EditedTexts == {<<>>, <<"venue analysis">>, <<"venue analysis", " with a longer stage">>}

\* the useState cells of the reviewing App and of the BlueprintReview dialog
ReviewingApp(blueprintData) ==
    [generationResult |-> NoResult, isLoading |-> FALSE, loadingMessage |-> <<>>,
     error |-> Null, blueprintData |-> ReviewData(blueprintData), isReviewing |-> TRUE,
     editedBlueprint |-> blueprintData.blueprint]

\* a slip in the spread: the stored blueprint goes on as it is, the edit is lost
WithFinalBlueprintIgnored(blueprintData, finalBlueprint) == blueprintData

\* `{ ...blueprintData, blueprint: finalBlueprint }`
WithFinalBlueprint(blueprintData, finalBlueprint) ==
    [blueprintData EXCEPT !.blueprint = finalBlueprint]

\* handleGenerateFromBlueprint from its entry to its await
handleGenerateFromBlueprint(finalBlueprint, constructionThrows) ==
    /\ hg.pc = "idle"
    /\ app.blueprintData.present
    /\ generateLayoutFromBlueprint(WithFinalBlueprint(app.blueprintData.data, finalBlueprint),
                                   progress, constructionThrows)
    /\ app' = [app EXCEPT !.isReviewing = FALSE, !.isLoading = TRUE, !.error = Null,
                          !.loadingMessage = Last(progress')]
    /\ hg' = [pc |-> "awaitLayout", finalBlueprint |-> finalBlueprint]
    /\ UNCHANGED <<bp, cl>>

\* resumption of handleGenerateFromBlueprint when the render stage has settled
handleGenerateFromBlueprintAfterLayout ==
    /\ hg.pc = "awaitLayout"
    /\ gen.pc = "done"
    /\ app' = Finally(IF gen.raised = Null
                      THEN [app EXCEPT !.generationResult = Result(gen.images)]
                      ELSE [app EXCEPT !.error = gen.raised])
    /\ hg' = [hg EXCEPT !.pc = "done"]
    /\ gen' = [gen EXCEPT !.pc = "settled"]
    /\ UNCHANGED <<bp, cl, svc, progress>>

\* handleCancelReview
handleCancelReview ==
    /\ app' = [app EXCEPT !.isReviewing = FALSE, !.blueprintData = NoReviewData]
    /\ UNCHANGED <<hg, bp, cl, gen, svc, progress>>

InitReview ==
    /\ call = NoCall
    /\ \E blueprintData \in ReviewBlueprints : app = ReviewingApp(blueprintData)
    /\ hg = [pc |-> "idle", finalBlueprint |-> <<>>]
    /\ bp = IdleBlueprint
    /\ cl = IdleClean
    /\ gen = IdleGen
    /\ svc = NoService
    /\ progress = <<>>

\* the dialog is on screen while isReviewing && blueprintData
DialogShown == app.isReviewing /\ app.blueprintData.present

EditBlueprint ==
    /\ DialogShown
    /\ \E text \in EditedTexts : app' = [app EXCEPT !.editedBlueprint = text]
    /\ UNCHANGED <<hg, bp, cl, gen, svc, progress, call>>

ConfirmReview ==
    /\ DialogShown
    /\ \E constructionThrows \in BOOLEAN :
          handleGenerateFromBlueprint(app.editedBlueprint, constructionThrows)
    /\ UNCHANGED call

CancelReview ==
    /\ DialogShown
    /\ handleCancelReview
    /\ UNCHANGED call

AnswerReviewedView ==
    /\ hg.pc = "awaitLayout"
    /\ \E response \in ImageResponses : generateLayoutFromBlueprintResume(response)
    /\ app' = [app EXCEPT !.loadingMessage = Last(progress')]
    /\ UNCHANGED <<hg, bp, cl, call>>

FinishReviewedGenerate ==
    /\ handleGenerateFromBlueprintAfterLayout
    /\ UNCHANGED call

NextReview ==
    \/ EditBlueprint
    \/ ConfirmReview
    \/ CancelReview
    \/ AnswerReviewedView
    \/ FinishReviewedGenerate

SpecReview == InitReview /\ [][NextReview]_vars

-----------------------------------------------------------------------------
(* ImageUploader.handleFiles: every selection copies the files prop into its own
   newFiles array and starts one FileReader per accepted file; each onloadend
   pushes to that array and hands a copy to onFilesUpdate.  File.type is kept as
   a token sequence here so that startsWith is computed. *)

\* the File objects the user can select, each at most once
PngBlob == [type |-> <<"image/", "png">>, name |-> <<"hall.png">>, data |-> <<"AAAA">>]
SvgBlob == [type |-> <<"image/", "svg+xml">>, name |-> <<"plan.svg">>, data |-> <<"SSSS">>]
Mp4Blob == [type |-> <<"video/", "mp4">>, name |-> <<"walk.mp4">>, data |-> <<"VVVV">>]
PdfBlob == [type |-> <<"application/", "pdf">>, name |-> <<"menu.pdf">>, data |-> <<"PPPP">>]
UntypedBlob == [type |-> <<>>, name |-> <<"notes">>, data |-> <<"NNNN">>]

SelectableBlobs == {PngBlob, SvgBlob, Mp4Blob, PdfBlob, UntypedBlob}

\* String.prototype.startsWith for a prefix that is one token
startsWith(s, prefix) == Len(s) >= 1 /\ s[1] = prefix

\* a slip in the filter: every selected file is read
AcceptedAnyType(file) == TRUE

\* `file && (file.type.startsWith('image/') || file.type.startsWith('video/'))`
Accepted(file) == startsWith(file.type, "image/") \/ startsWith(file.type, "video/")

\* reader.result after readAsDataURL
ReadAsDataURL(file) == <<"data:">> \o file.type \o <<";base64", Comma>> \o file.data

\* the asset pushed by reader.onloadend
AssetOf(file) ==
    [base64 |-> ReadAsDataURL(file),
     mimeType |-> file.type,
     type |-> IF startsWith(file.type, "image/") THEN "image" ELSE "video",
     name |-> file.name]

\* the ImageUploader at rest: no selection made yet
IdleUploader == [batches |-> <<>>, selected |-> {}, removed |-> {}]

\* handleFiles(selectedFiles): the copy of the files prop and the readers started
handleFiles(selectedFiles) ==
    /\ hg' = [hg EXCEPT !.batches = Append(@, [newFiles |-> app.uploadedFiles,
                                               pending |-> {f \in selectedFiles : Accepted(f)}]),
                        !.selected = @ \cup selectedFiles]
    /\ UNCHANGED app

\* reader.onloadend of one file of batch b
onloadend(b, file) ==
    LET newFiles == Append(hg.batches[b].newFiles, AssetOf(file))
    IN  /\ hg' = [hg EXCEPT !.batches[b].newFiles = newFiles,
                            !.batches[b].pending = @ \ {file}]
        /\ app' = [app EXCEPT !.uploadedFiles = newFiles]

InitUploads ==
    /\ call = NoCall
    /\ app = IdleApp
    /\ hg = IdleUploader
    /\ bp = IdleBlueprint
    /\ cl = IdleClean
    /\ gen = IdleGen
    /\ svc = NoService
    /\ progress = <<>>

\* the user drops or picks files not selected before
SelectFiles ==
    /\ Len(hg.batches) < MaxBatches
    /\ \E selectedFiles \in (SUBSET (SelectableBlobs \ hg.selected)) \ {{}} :
          handleFiles(selectedFiles)
    /\ UNCHANGED <<bp, cl, gen, svc, progress, call>>

\* one of the started reads ends
ReadCompletes ==
    /\ \E b \in 1..Len(hg.batches) : \E file \in hg.batches[b].pending : onloadend(b, file)
    /\ UNCHANGED <<bp, cl, gen, svc, progress, call>>

\* the user clicks the remove button of a listed asset
RemoveUploaded ==
    /\ \E index \in 0..(Len(app.uploadedFiles) - 1) :
          /\ app' = [app EXCEPT !.uploadedFiles = removeFile(@, index)]
          /\ hg' = [hg EXCEPT !.removed = @ \cup {app.uploadedFiles[index + 1].name}]
    /\ UNCHANGED <<bp, cl, gen, svc, progress, call>>

NextUploads == SelectFiles \/ ReadCompletes \/ RemoveUploaded

SpecUploads == InitUploads /\ [][NextUploads]_vars

-----------------------------------------------------------------------------
(* cleanBase64 on its own: any string, stripped and stripped again *)

StringTokens == {"data:image/png;base64", Comma, "AAAA", "BBBB"}

InitStrip ==
    /\ \E base64String \in ListsOver(StringTokens, MaxTokens) :
          call = [fn |-> "cleanBase64", base64String |-> base64String, applied |-> 0,
                  out |-> <<>>, again |-> <<>>]
    /\ app = IdleApp
    /\ hg = IdleHandler
    /\ bp = IdleBlueprint
    /\ cl = IdleClean
    /\ gen = IdleGen
    /\ svc = NoService
    /\ progress = <<>>

CallCleanBase64 ==
    /\ call.applied = 0
    /\ call' = [call EXCEPT !.applied = 1, !.out = cleanBase64(call.base64String)]
    /\ UNCHANGED <<app, hg, bp, cl, gen, svc, progress>>

CallCleanBase64Again ==
    /\ call.applied = 1
    /\ call' = [call EXCEPT !.applied = 2, !.again = cleanBase64(call.out)]
    /\ UNCHANGED <<app, hg, bp, cl, gen, svc, progress>>

NextStrip == CallCleanBase64 \/ CallCleanBase64Again

SpecStrip == InitStrip /\ [][NextStrip]_vars

-----------------------------------------------------------------------------
(* The App: one Generate request from the click to the result or the error *)

UploadFiles == {PngFile, JpegFile, Mp4File}
Locations == {NoLocation, AddressLocation, CoordinateLocation}
Websites == {<<>>, <<Space>>, <<"venue.example">>}
Prompts == {<<>>, <<"garden wedding">>}

\* the answers of the image model followed through a whole request
PipelineImageResponses == {RespThrow, RespTextOnly, RespImage}

Init ==
    /\ call = NoCall
    /\ \E uploadedFiles \in ListsOver(UploadFiles, MaxUploads), location \in Locations,
          venueWebsite \in Websites, prompt \in Prompts :
          app = [IdleApp EXCEPT !.uploadedFiles = uploadedFiles, !.location = location,
                                !.venueWebsite = venueWebsite, !.prompt = prompt]
    /\ hg = IdleHandler
    /\ bp = IdleBlueprint
    /\ cl = IdleClean
    /\ gen = IdleGen
    /\ svc = NoService
    /\ progress = <<>>

\* handleGenerate is called.  The Generate button is disabled while isLoading
\* (App.tsx:176); it is also disabled on the very inputs the handler's first
\* two checks reject, so those checks decide only when the handler is driven
\* by another caller: the handler is modelled with its own checks in force.
HandleGenerate ==
    /\ ~ app.isLoading
    /\ \E cleanConstructionThrows \in BOOLEAN : handleGenerate(cleanConstructionThrows)
    /\ UNCHANGED call

AnswerCleanup ==
    /\ bp.pc = "awaitClean"
    /\ \E response \in PipelineImageResponses : cleanUpImagesResume(response)
    /\ app' = [app EXCEPT !.loadingMessage = Last(progress')]
    /\ UNCHANGED <<hg, bp, gen>>
    /\ UNCHANGED call

ResumeBlueprint ==
    /\ \E constructionThrows \in BOOLEAN : getEventBlueprintAfterClean(constructionThrows)
    /\ app' = [app EXCEPT !.loadingMessage = IF progress' # progress THEN Last(progress') ELSE @]
    /\ UNCHANGED <<hg, gen>>
    /\ UNCHANGED call

AnswerBlueprint ==
    /\ \E response \in TextResponses : getEventBlueprintResume(response)
    /\ UNCHANGED <<app, hg, cl, gen, progress>>
    /\ UNCHANGED call

ResumeGenerate ==
    /\ \E constructionThrows \in BOOLEAN : handleGenerateAfterBlueprint(constructionThrows)
    /\ UNCHANGED call

AnswerView ==
    /\ hg.pc = "awaitLayout"
    /\ \E response \in PipelineImageResponses : generateLayoutFromBlueprintResume(response)
    /\ app' = [app EXCEPT !.loadingMessage = Last(progress')]
    /\ UNCHANGED <<hg, bp, cl>>
    /\ UNCHANGED call

FinishGenerate ==
    /\ handleGenerateAfterLayout
    /\ UNCHANGED call

Next ==
    \/ HandleGenerate
    \/ AnswerCleanup
    \/ ResumeBlueprint
    \/ AnswerBlueprint
    \/ ResumeGenerate
    \/ AnswerView
    \/ FinishGenerate

Spec == Init /\ [][Next]_vars

\* The same request when every AI-service call eventually returns or throws and
\* the event loop runs every continuation that is ready.  The click itself is
\* the user's: nothing obliges it to happen.
Fairness ==
    /\ WF_vars(AnswerCleanup)
    /\ WF_vars(ResumeBlueprint)
    /\ WF_vars(AnswerBlueprint)
    /\ WF_vars(ResumeGenerate)
    /\ WF_vars(AnswerView)
    /\ WF_vars(FinishGenerate)

SpecFair == Init /\ [][Next]_vars /\ Fairness


-----------------------------------------------------------------------------
(* Properties of cleanUpImages (checked under SpecClean) *)

Cleanable(files) == SelectSeq(files, IsSupported)
PassThrough(files) == SelectSeq(files, IsOther)

\* the payload of a data URL: what follows "data:<mime>;base64,"
PayloadOf(base64) == SubSeq(base64, 5, Len(base64))

\* out is orig after a successful cleaning with `data` returned
MarkedCleaned(out, orig, data) ==
    /\ out.name = <<"cleaned_">> \o orig.name
    /\ PayloadOf(out.base64) = data
    /\ out.mimeType = orig.mimeType
    /\ out.type = orig.type

\* C4: every cleanable asset whose service call threw appears unmodified at the
\* same position among the cleanable assets of the output, and the loop went on
\* to the assets after it.
C4_ThrownAssetKeptInPlace ==
    cl.pc = "done" =>
        \A k \in 1..Len(cl.responses) :
            cl.responses[k].kind = "throw" =>
                /\ Len(cl.responses) = Len(Cleanable(cl.files))
                /\ Len(Cleanable(cl.ret)) = Len(Cleanable(cl.files))
                /\ Cleanable(cl.ret)[k] = Cleanable(cl.files)[k]

\* Scenario C: three images, the call for the second one throws, the others come back cleaned
C4_Witness ==
    /\ cl.pc = "done"
    /\ cl.files = <<PngFile, JpegFile, PngFile>>
    /\ cl.responses = <<RespImage, RespThrow, RespImage>>

\* C5: slot k of the output is decided by response k alone: an inline payload in
\* it gives the asset with that payload and a "cleaned_" name, anything else
\* (no payload, or a throw) gives the original asset.
C5_SlotDecidedByOwnResponse ==
    (cl.pc = "done" /\ ~ cl.failed) =>
        \A k \in 1..Len(Cleanable(cl.files)) :
            LET orig == Cleanable(cl.files)[k]
                response == cl.responses[k]
            IN  IF response.kind = "ok" /\ FirstInline(response) # 0
                THEN MarkedCleaned(cl.ret[k], orig, FirstInlinePart(response).data)
                ELSE cl.ret[k] = orig

C5_Witness ==
    /\ cl.pc = "done"
    /\ cl.files = <<JpegFile, PngFile, JpegFile>>
    /\ cl.responses = <<RespImageNoMime, RespThrow, RespTextOnly>>
    /\ cl.ret[1].name = <<"cleaned_", "lawn.jpg">>
    /\ cl.ret[2] = PngFile
    /\ cl.ret[3] = JpegFile

\* C6: a list without any whitelisted image comes back as it went in, and the
\* service is never called.
C6_NoCleanablePassThrough ==
    (cl.pc = "done" /\ Cleanable(cl.files) = <<>>) =>
        /\ cl.ret = cl.files
        /\ svc.requests = <<>>
        /\ svc.outstanding = 0

C6_Witness ==
    /\ cl.pc = "done"
    /\ cl.files = <<Mp4File, GifFile>>

\* the output is the cleanable assets (each cleaned or kept) in their order,
\* then the pass-through assets in their order
CleanablesThenPassThrough ==
    LET n == Len(Cleanable(cl.files))
    IN  /\ Len(cl.ret) = Len(cl.files)
        /\ \A k \in 1..n :
              \/ cl.ret[k] = Cleanable(cl.files)[k]
              \/ MarkedCleaned(cl.ret[k], Cleanable(cl.files)[k], PayloadOf(cl.ret[k].base64))
        /\ SubSeq(cl.ret, n + 1, Len(cl.ret)) = PassThrough(cl.files)

\* C7 as stated: every output has the cleanables-then-pass-through layout.
C7_Original == cl.pc = "done" => CleanablesThenPassThrough

\* C7 as amended: the layout holds whenever the cleanup phase did not fail as a
\* whole; when it did (the outer catch), the output is the input, in input order.
C7_OutputLayout ==
    cl.pc = "done" =>
        /\ Len(cl.ret) = Len(cl.files)
        /\ IF cl.failed THEN cl.ret = cl.files ELSE CleanablesThenPassThrough

C7_Witness ==
    /\ cl.pc = "done"
    /\ ~ cl.failed
    /\ cl.files = <<Mp4File, PngFile, GifFile>>
    /\ cl.ret = <<[PngFile EXCEPT !.base64 = DataUrl("image/webp", <<"CCCC">>),
                                  !.name = <<"cleaned_", "hall.png">>],
                  Mp4File, GifFile>>

-----------------------------------------------------------------------------
(* Properties of generateLayoutFromBlueprint (checked under SpecRender) *)

ViewLabels == <<"Floor Plan", "Main Event Space", "Side View">>

LabelsOf(images) == [k \in 1..Len(images) |-> images[k].label]

\* the image source the render stage works from
SelectedSource(blueprintData) ==
    IF Cleanable(blueprintData.foundFiles) # <<>>
    THEN Cleanable(blueprintData.foundFiles)
    ELSE Cleanable(blueprintData.userFiles)

C2_NoImagesRaises ==
    (/\ gen.pc = "done"
     /\ Cleanable(gen.blueprintData.foundFiles) = <<>>
     /\ Cleanable(gen.blueprintData.userFiles) = <<>>) =>
        /\ gen.raised # Null
        /\ gen.images = <<>>

\* the complete fallback result: each view's fixed drawing
AllFallbackImages ==
    <<SvgDataUrl(FloorPlanMarkup), SvgDataUrl(MainSpaceMarkup), SvgDataUrl(SideViewMarkup)>>

\* C3: an exception that escapes the per-view handling is not raised to the
\* caller: the call returns the three fallback drawings under the three labels;
\* no returned result has fewer than three entries.
C3_EscapedExceptionGivesFullFallback ==
    gen.pc = "done" =>
        /\ gen.caught # Null =>
              /\ gen.raised = Null
              /\ LabelsOf(gen.images) = ViewLabels
              /\ [k \in 1..Len(gen.images) |-> gen.images[k].imageUrl] = AllFallbackImages
        /\ gen.raised = Null => Len(gen.images) \notin {0, 1, 2}

C3_Witness ==
    /\ gen.pc = "done"
    /\ gen.caught = "model construction failed"
    /\ gen.blueprintData.foundFiles = <<CleanedPngFile, Mp4File>>
    /\ Len(gen.images) = 3

\* C8: when every call of the image service throws, entry k is what the
\* fallback renderer gives for label k.
C8_AllThrowsGiveFallbacks ==
    (/\ gen.pc = "done"
     /\ Len(gen.responses) = 3
     /\ \A k \in 1..3 : gen.responses[k].kind = "throw") =>
        /\ Len(gen.images) = 3
        /\ \A k \in 1..3 :
              /\ gen.images[k].label = ViewLabels[k]
              /\ gen.images[k].imageUrl =
                    generateFallbackSVG(ViewLabels[k], gen.blueprintData, k - 1)

C8_Witness ==
    /\ gen.pc = "done"
    /\ gen.responses = <<RespThrow, RespThrow, RespThrow>>
    /\ gen.blueprintData.userFiles = <<PngFile>>
    /\ gen.blueprintData.foundFiles = <<>>

-----------------------------------------------------------------------------
(* Properties of a Generate request (checked under Spec) *)

\* C9: with no file, no location and an empty website, a Generate request ends
\* at once with the "please upload" error: no request ever goes to the AI
\* service and the render stage is never entered.
C9_NothingProvidedFailsFast ==
    (app.uploadedFiles = <<>> /\ app.location = NoLocation /\ app.venueWebsite = <<>>) =>
        /\ svc.requests = <<>>
        /\ svc.outstanding = 0
        /\ gen.pc = "idle"
        /\ hg.pc # "idle" =>
              /\ hg.pc = "done"
              /\ app.error = "Please upload at least one venue image or provide location/website."
              /\ ~ app.isLoading
              /\ ~ app.generationResult.present

C9_Witness ==
    /\ hg.pc = "done"
    /\ app.uploadedFiles = <<>>
    /\ app.location = NoLocation
    /\ app.venueWebsite = <<>>
    /\ app.prompt = <<"garden wedding">>
    /\ app.error = PleaseUpload

\* C10: when anything inside getEventBlueprint throws, no blueprint is returned
\* and the one error raised carries the fixed "Failed to analyze venue" message,
\* which is neither the caught error's message nor the render stage's message.
C10_BlueprintFailureFixedMessage ==
    (bp.pc \in {"done", "settled"} /\ bp.caught # Null) =>
        /\ ~ bp.returned
        /\ bp.ret = NoBlueprintData
        /\ bp.raised = "Failed to analyze venue. Please check your images and try again."
        /\ bp.raised # bp.caught
        /\ bp.raised # NoVenueImages

C10_Witness ==
    /\ bp.pc = "done"
    /\ bp.caught = "fetch failed"
    /\ bp.uploadedFiles = <<PngFile, Mp4File>>
    /\ bp.raised = FailedToAnalyze

\* C11: cleanUpImages never raises to its caller: whatever the per-asset calls
\* did it returns a list as long as its input, and when the cleanup fails as a
\* whole it returns the input list unchanged; so a failure of getEventBlueprint
\* is always one of its own stage (model construction or the text call), never
\* one of the cleanup.
BlueprintStageErrors ==
    {"model construction failed", TextThrows.error, TextBlocked.error}

C11_CleanupNeverRaises ==
    /\ cl.pc = "done" =>
          /\ cl.raised = Null
          /\ Len(cl.ret) = Len(cl.files)
          /\ cl.failed => cl.ret = cl.files
    /\ (bp.pc \in {"awaitText", "done", "settled"} /\ bp.caught # Null) =>
          bp.caught \in BlueprintStageErrors
    /\ (bp.pc \in {"awaitText", "done", "settled"} /\ bp.cleanupFailed) =>
          bp.cleanedFiles = bp.uploadedFiles

C11_Witness ==
    /\ bp.pc = "done"
    /\ bp.returned
    /\ bp.cleanupFailed
    /\ bp.uploadedFiles = <<PngFile, Mp4File>>
    /\ bp.ret.foundFiles = <<PngFile, Mp4File>>

C11_WitnessPerAsset ==
    /\ bp.pc = "done"
    /\ bp.returned
    /\ bp.cleanupThrew
    /\ ~ bp.cleanupFailed

-----------------------------------------------------------------------------
(* Properties of one Generate request (checked under Spec) *)

RequestsOf(stage) == SelectSeq(svc.requests, LAMBDA r : r.stage = stage)

PipelineOver == hg.pc = "done" /\ bp.pc # "idle"

\* C12 as stated: whatever fails, a run issues one call per cleanable image,
\* one text call and three view calls.
C12_Original ==
    PipelineOver =>
        /\ CallsOf("clean") = Len(Cleanable(app.uploadedFiles))
        /\ CallsOf("text") = 1
        /\ CallsOf("view") = 3

\* C12: no unit of work is called twice.  The cleanup calls are, in order, the
\* requests for the first cleanable images; there is at most one text call; the
\* view calls are, in order, the requests for the first views.  When the run is
\* over the cleanup made one call per cleanable image unless it failed as a
\* whole (then none), the blueprint stage made one text call unless its model
\* could not be constructed (then none), and the renderer made three view calls
\* when it reached its loop and none when it was never called or left through
\* its outer catch.
C12_NoRetry ==
    LET cleanable == Cleanable(app.uploadedFiles)
        clean == RequestsOf("clean")
        text == RequestsOf("text")
        view == RequestsOf("view")
    IN  /\ Len(clean) <= Len(cleanable)
        /\ \A k \in 1..Len(clean) : clean[k].parts = CleanRequest(cleanable[k])
        /\ Len(text) <= 1
        /\ Len(view) <= 3
        /\ \A k \in 1..Len(view) :
              view[k].parts = ViewRequest(viewPrompts(gen.blueprintData)[k],
                                          gen.venueImages, gen.cleanedImages)
        /\ PipelineOver =>
              /\ Len(clean) = IF bp.cleanupFailed THEN 0 ELSE Len(cleanable)
              /\ Len(text) = IF bp.caught = "model construction failed" THEN 0 ELSE 1
              /\ Len(view) = IF gen.pc # "idle" /\ gen.caught = Null THEN 3 ELSE 0

C12_Witness ==
    /\ PipelineOver
    /\ app.uploadedFiles = <<PngFile, JpegFile>>
    /\ bp.cleanupThrew
    /\ gen.pc = "settled"
    /\ gen.responses = <<RespThrow, RespImage, RespThrow>>
    /\ CallsOf("clean") = 2 /\ CallsOf("text") = 1 /\ CallsOf("view") = 3

\* C13: the AI-service calls are awaited one at a time: at most one call is
\* outstanding at any moment, so call i+1 of a loop is issued only when call i
\* has returned or thrown.
C13_OneCallOutstanding == svc.outstanding <= 1

\* C13 on a whole Generate request served by the sequential cleanUpImages: the
\* number of calls issued never runs more than one ahead of the answers taken.
C13_SequentialPipeline ==
    /\ svc.outstanding \in {0, 1}
    /\ cl.pc = "await" => Len(RequestsOf("clean")) = Len(cl.responses) + 1
    /\ gen.pc = "await" => Len(RequestsOf("view")) = Len(gen.responses) + 1

-----------------------------------------------------------------------------
(* Properties of the fallback renderer (checked under SpecFallback) *)

\* C14 as stated: two calls with the same label and the same blueprint return
\* the same bytes, for every label.
C14_Original ==
    \A a, b \in 1..Len(call.applied) :
        (/\ call.applied[a].label = call.applied[b].label
         /\ call.applied[a].blueprintData = call.applied[b].blueprintData)
        => call.applied[a].out = call.applied[b].out

\* C14: for the three known labels the output is decided by the label alone
\* (neither the blueprint nor the index changes a byte); for any other label it
\* is decided by the label and the index modulo the number of card colours,
\* whatever the blueprint.
C14_FallbackDecidedByLabel ==
    \A a, b \in 1..Len(call.applied) :
        LET x == call.applied[a]
            y == call.applied[b]
            known == \E v \in 1..Len(ViewLabels) : ViewLabels[v] = x.label
            colours == Len(PlaceholderColors)
        IN  /\ (x.label = y.label /\ known) => x.out = y.out
            /\ (x.label = y.label /\ x.index % colours = y.index % colours) => x.out = y.out

C14_Witness ==
    /\ Len(call.applied) = 2
    /\ call.applied[1].label = "Floor Plan" /\ call.applied[2].label = "Floor Plan"
    /\ call.applied[1].blueprintData # call.applied[2].blueprintData
    /\ call.applied[1].index # call.applied[2].index
    /\ call.applied[1].out = call.applied[2].out

C14_WitnessOtherLabel ==
    /\ Len(call.applied) = 2
    /\ call.applied[1].label = "Lobby" /\ call.applied[2].label = "Lobby"
    /\ call.applied[1].index = 0 /\ call.applied[2].index = 3
    /\ call.applied[1].out = call.applied[2].out

-----------------------------------------------------------------------------
(* Properties of the uploader (checked under SpecUploader) *)

\* C15: removing the asset at position i (0 <= i < n) of an n-asset collection
\* leaves n-1 assets: those before position i where they were, those after it
\* one position lower, nothing reordered.
C15_RemoveDeletesPosition ==
    call.applied =>
        LET before == call.files
            after == app.uploadedFiles
            i == call.index
        IN  /\ Len(after) = Len(before) - 1
            /\ \A k \in 0..(Len(after) - 1) :
                  after[k + 1] = IF k < i THEN before[k + 1] ELSE before[k + 2]

C15_Witness ==
    /\ call.applied
    /\ call.files = <<PngFile, Mp4File, JpegFile>>
    /\ call.index = 1
    /\ app.uploadedFiles = <<PngFile, JpegFile>>

-----------------------------------------------------------------------------
(* Properties of the progress messages of one Generate request (checked under Spec) *)

\* the function that sends a message, told by how the message begins
StageOf(message) ==
    CASE message[1] \in {MsgCleaningUp[1], "Cleaning image ", MsgCleanupComplete[1]} -> "cleanup"
      [] message[1] \in {MsgAnalyzing[1], MsgCreatingBlueprint[1]} -> "blueprint"
      [] OTHER -> "render"

\* C16 as stated: every cleanup message comes before every blueprint-stage
\* message, and every blueprint-stage message before every render-stage message.
C16_Original ==
    \A i, j \in 1..Len(progress) :
        /\ (StageOf(progress[i]) = "cleanup" /\ StageOf(progress[j]) = "blueprint") => i < j
        /\ (StageOf(progress[i]) = "blueprint" /\ StageOf(progress[j]) = "render") => i < j

\* C16: the first message of a run is getEventBlueprint's "Analyzing venue
\* with AI...", sent once; every cleanup message comes after it and before
\* "Creating event blueprint..."; every blueprint-stage message comes before
\* every render-stage message.
C16_StageOrder ==
    /\ progress # <<>> => progress[1] = MsgAnalyzing
    /\ \A i, j \in 1..Len(progress) :
          /\ (progress[i] = MsgAnalyzing /\ i # j) =>
                (i < j /\ progress[j] # MsgAnalyzing)
          /\ (StageOf(progress[i]) = "cleanup" /\ progress[j] = MsgCreatingBlueprint) => i < j
          /\ (StageOf(progress[i]) \in {"cleanup", "blueprint"}
                 /\ StageOf(progress[j]) = "render") => i < j

C16_Witness ==
    /\ hg.pc = "done"
    /\ app.uploadedFiles = <<PngFile, Mp4File>>
    /\ progress = << MsgAnalyzing, MsgCleaningUp, MsgCleaning(1, 1), MsgCleanupComplete,
                     MsgCreatingBlueprint, MsgGenerating,
                     MsgGeneratingView("Floor Plan"), MsgGeneratingView("Main Event Space"),
                     MsgGeneratingView("Side View"), MsgTransformationComplete >>

-----------------------------------------------------------------------------
(* Properties of the error shown by the App (checked under Spec) *)

\* the messages the application words for its user
FixedMessages ==
    {PleaseUpload, PleaseDescribe, FailedToAnalyze, "Generation failed. Please try again."}

\* the messages of the exceptions raised underneath: by the service client, by
\* the network, by the checks on a response
UnderlyingErrors ==
    {TextThrows.error, TextBlocked.error, "model construction failed", CleanModelFailed,
     NoCandidates}

\* C17: whatever is in the error cell of the UI is one of the fixed user-facing
\* messages, never the message of the exception a stage caught; after a failed
\* blueprint stage it is the "Failed to analyze venue" message.
C17_OnlyFixedMessagesShown ==
    /\ app.error # Null =>
          /\ app.error \in FixedMessages
          /\ app.error \notin UnderlyingErrors
          /\ app.error \notin {bp.caught, gen.caught}
    /\ (hg.pc = "done" /\ bp.caught # Null) => app.error = FailedToAnalyze
    /\ (hg.pc = "done" /\ gen.caught # Null) => app.error = Null

C17_Witness ==
    /\ hg.pc = "done"
    /\ bp.caught = TextBlocked.error
    /\ app.error = FailedToAnalyze
    /\ ~ app.isLoading

-----------------------------------------------------------------------------
(* Properties of cleanBase64 (checked under SpecStrip) *)

CommasIn(s) == Cardinality({k \in 1..Len(s) : s[k] = Comma})

\* C18: for an input "<prefix>,<payload>" (one separating comma) cleanBase64
\* returns the payload after the comma; for an input without a comma it returns
\* the input; stripping a second time changes nothing.
C18_StripReturnsPayload ==
    LET x == call.base64String
        k == IndexOfComma(x, 1)
    IN  /\ (call.applied >= 1 /\ CommasIn(x) = 1) => call.out = SubSeq(x, k + 1, Len(x))
        /\ (call.applied >= 1 /\ CommasIn(x) = 0) => call.out = x
        /\ call.applied = 2 => call.again = call.out

\* C18, last part alone: cleanBase64(cleanBase64(x)) = cleanBase64(x)
C18_Idempotent == call.applied = 2 => call.again = call.out

\* C18, the two cases the code does serve: a non-empty payload after the one
\* comma is returned, an input without a comma is returned as it is
C18_NonEmptyPayloadReturned ==
    LET x == call.base64String
        k == IndexOfComma(x, 1)
    IN  /\ (call.applied >= 1 /\ CommasIn(x) = 1 /\ k < Len(x)) =>
              call.out = SubSeq(x, k + 1, Len(x))
        /\ (call.applied >= 1 /\ CommasIn(x) = 0) => call.out = x

-----------------------------------------------------------------------------
(* Properties of the render loop (checked under SpecRender) *)

\* the inline part a request carries for an asset: its payload and MIME type
AttachedAs(part, file) ==
    /\ part.kind = "inline"
    /\ part.data = PayloadOf(file.base64)
    /\ part.mimeType = file.mimeType

\* C19: the render stage works from the cleaned assets (foundFiles) of a
\* supported image type when there is at least one, and from the original
\* assets (userFiles) of a supported image type only when there is none; every
\* view call carries, after its prompt, every image of the selected list, in
\* order, and nothing else.
C19_SelectedSourceAttached ==
    LET cleaned == Cleanable(gen.blueprintData.foundFiles)
        original == Cleanable(gen.blueprintData.userFiles)
        selected == IF Len(cleaned) > 0 THEN cleaned ELSE original
        view == RequestsOf("view")
    IN  (gen.pc \in {"await", "done"} /\ gen.caught = Null) =>
            /\ gen.venueImages = selected
            /\ Len(view) >= 1
            /\ \A r \in 1..Len(view) :
                  /\ Len(view[r].parts) = 1 + Len(selected)
                  /\ view[r].parts[1].kind = "text"
                  /\ \A k \in 1..Len(selected) :
                        AttachedAs(view[r].parts[k + 1], selected[k])

C19_Witness ==
    /\ gen.pc = "done"
    /\ gen.blueprintData.foundFiles = <<Mp4File>>
    /\ gen.blueprintData.userFiles = <<PngFile, CleanedPngFile>>
    /\ gen.venueImages = <<PngFile, CleanedPngFile>>
    /\ CallsOf("view") = 3

C19_WitnessCleaned ==
    /\ gen.pc = "done"
    /\ gen.blueprintData.foundFiles = <<CleanedPngFile, Mp4File>>
    /\ gen.blueprintData.userFiles = <<PngFile, Mp4File>>
    /\ gen.venueImages = <<CleanedPngFile>>
    /\ CallsOf("view") = 3

\* the response carries an inline binary payload among its first candidate's parts
ReturnedPayload(response) ==
    /\ response.kind = "ok"
    /\ Len(response.candidates) >= 1
    /\ response.candidates[1].content
    /\ \E p \in 1..Len(response.candidates[1].parts) :
          HasInlineData(response.candidates[1].parts[p])

\* the first such part
PayloadPart(response) ==
    LET parts == response.candidates[1].parts
        p == CHOOSE p \in 1..Len(parts) :
                 /\ HasInlineData(parts[p])
                 /\ \A q \in 1..(p - 1) : ~ HasInlineData(parts[q])
    IN  parts[p]

\* C20: when i views have been handled exactly i entries exist; entry i is the
\* AI image built from the first inline payload of call i's first candidate if
\* and only if call i returned such a payload, and otherwise the fallback
\* drawing of that view's label: it is decided by call i's outcome alone.
C20_EntryDecidedByOwnCall ==
    (gen.pc \in {"await", "done"} /\ gen.caught = Null) =>
        /\ Len(gen.responses) = gen.i
        /\ Len(gen.generatedImages) = gen.i
        /\ gen.pc = "done" => gen.i = 3
        /\ \A k \in 1..gen.i :
              LET entry == gen.generatedImages[k]
                  response == gen.responses[k]
                  fallback == generateFallbackSVG(ViewLabels[k], gen.blueprintData, k - 1)
              IN  /\ entry.label = ViewLabels[k]
                  /\ ReturnedPayload(response) <=> entry.imageUrl # fallback
                  /\ ReturnedPayload(response) =>
                        /\ PayloadOf(entry.imageUrl) = PayloadPart(response).data
                        /\ entry.imageUrl[2] = IF PayloadPart(response).mimeType # ""
                                                THEN PayloadPart(response).mimeType
                                                ELSE "image/png"

C20_Witness ==
    /\ gen.pc = "done"
    /\ gen.responses = <<RespImageNoMime, RespThrow, RespTextOnly>>
    /\ gen.generatedImages[1].imageUrl = DataUrl("image/png", <<"DDDD">>)
    /\ gen.generatedImages[2].imageUrl = SvgDataUrl(MainSpaceMarkup)
    /\ gen.generatedImages[3].imageUrl = SvgDataUrl(SideViewMarkup)

-----------------------------------------------------------------------------
(* Properties of the progress messages of cleanUpImages (checked under SpecClean) *)

\* the per-asset messages 1 of n .. m of n
CleaningMessages(m, n) == [k \in 1..m |-> MsgCleaning(k, n)]

\* C21 as stated: every call that has returned sent the opening message, one
\* message per cleanable asset it processed, and the completion message last.
C21_Original ==
    cl.pc = "done" =>
        /\ progress[1] = MsgCleaningUp
        /\ progress[Len(progress)] = MsgCleanupComplete
        /\ SubSeq(progress, 2, Len(progress) - 1)
             = CleaningMessages(Len(cl.responses), Len(cl.imageFiles))

\* C21: the opening message is sent first by every call.  A call that reaches
\* its loop sends "Cleaning image i of n..." for i = 1..n in increasing order,
\* the i-th no later than the i-th service call is issued, and then the
\* completion message once, as the last message.  A call with no cleanable
\* asset, or one that fails as a whole before its loop, sends the opening
\* message and nothing else.
C21_CleanupMessages ==
    LET n == Len(cl.imageFiles)
    IN  /\ cl.pc = "await" =>
              /\ progress = <<MsgCleaningUp>> \o CleaningMessages(cl.i + 1, n)
              /\ CallsOf("clean") = cl.i + 1
        /\ (cl.pc = "done" /\ n > 0 /\ ~ cl.failed) =>
              /\ progress = <<MsgCleaningUp>> \o CleaningMessages(n, n)
                               \o <<MsgCleanupComplete>>
              /\ progress[2] = <<"Cleaning image ", "1", " of ", ToString(n), "...">>
              /\ CallsOf("clean") = n
        /\ (cl.pc = "done" /\ (n = 0 \/ cl.failed)) =>
              /\ progress = <<MsgCleaningUp>>
              /\ CallsOf("clean") = 0

C21_Witness ==
    /\ cl.pc = "done"
    /\ cl.files = <<PngFile, Mp4File, JpegFile>>
    /\ cl.responses = <<RespThrow, RespImage>>
    /\ progress = << MsgCleaningUp, MsgCleaning(1, 2), MsgCleaning(2, 2), MsgCleanupComplete >>

-----------------------------------------------------------------------------
(* Properties of the progress messages of the render stage (checked under SpecRender) *)

\* the per-view messages of the first m views
ViewMessages(m) == [k \in 1..m |-> MsgGeneratingView(ViewLabels[k])]

\* C22 as stated: every call that has returned a result sent one message per
\* view attempted, in view order, and then the completion message last.
C22_Original ==
    (gen.pc = "done" /\ gen.raised = Null) =>
        /\ progress[Len(progress)] = MsgTransformationComplete
        /\ SubSeq(progress, 2, Len(progress) - 1) = ViewMessages(CallsOf("view"))

\* C22: the opening message is sent first by every call.  A call that reaches
\* its loop sends "Generating <label>..." for the three views in view order,
\* the i-th no later than the i-th service call is issued, and then the
\* completion message once, as the last message before it returns.  A call that
\* returns through its outer catch has sent the opening message and nothing else.
C22_RenderMessages ==
    /\ gen.pc = "await" =>
          /\ progress = <<MsgGenerating>> \o ViewMessages(gen.i + 1)
          /\ CallsOf("view") = gen.i + 1
    /\ (gen.pc = "done" /\ gen.caught = Null) =>
          /\ progress = << MsgGenerating,
                           <<"Generating ", "Floor Plan", " with Nano Banana...">>,
                           <<"Generating ", "Main Event Space", " with Nano Banana...">>,
                           <<"Generating ", "Side View", " with Nano Banana...">>,
                           MsgTransformationComplete >>
          /\ CallsOf("view") = 3
    /\ (gen.pc = "done" /\ gen.caught # Null) =>
          /\ progress = <<MsgGenerating>>
          /\ CallsOf("view") = 0

C22_Witness ==
    /\ gen.pc = "done"
    /\ gen.responses = <<RespThrow, RespNoCandidates, RespImage>>
    /\ Len(gen.images) = 3
    /\ progress[Len(progress)] = MsgTransformationComplete
    /\ Len(progress) = 5

-----------------------------------------------------------------------------
(* Properties of the blueprint review (checked under SpecReview) *)

\* C23: once the review is confirmed the render stage works on a blueprint
\* whose text is the text the reviewer left in the dialog and whose userFiles,
\* foundFiles and mediaAnalysis are those stored from getEventBlueprint; once it
\* is cancelled no render is started and generationResult stays as it was.
C23_ReviewPassesEditedText ==
    /\ gen.pc # "idle" =>
          /\ gen.blueprintData.blueprint = hg.finalBlueprint
          /\ hg.finalBlueprint = app.editedBlueprint
          /\ gen.blueprintData.userFiles = app.blueprintData.data.userFiles
          /\ gen.blueprintData.foundFiles = app.blueprintData.data.foundFiles
          /\ gen.blueprintData.mediaAnalysis = app.blueprintData.data.mediaAnalysis
          /\ \A k \in 1..Len(svc.requests) :
                \E p \in 1..Len(svc.requests[k].parts[1].data) :
                    SubSeq(svc.requests[k].parts[1].data, p,
                           p + Len(hg.finalBlueprint) - 1) = hg.finalBlueprint
    /\ ~ app.blueprintData.present =>
          /\ gen.pc = "idle"
          /\ hg.pc = "idle"
          /\ svc = NoService
          /\ app.generationResult = NoResult
          /\ ~ app.isLoading

C23_Witness ==
    /\ hg.pc = "done"
    /\ app.blueprintData.data.blueprint = <<"venue analysis">>
    /\ app.blueprintData.data.foundFiles = <<CleanedPngFile, Mp4File>>
    /\ gen.blueprintData.blueprint = <<"venue analysis", " with a longer stage">>
    /\ gen.blueprintData.foundFiles = <<CleanedPngFile, Mp4File>>
    /\ app.generationResult.present

C23_WitnessCancelled ==
    /\ ~ app.blueprintData.present
    /\ app.editedBlueprint = <<"venue analysis", " with a longer stage">>
    /\ gen.pc = "idle"

-----------------------------------------------------------------------------
(* Properties of the uploads (checked under SpecUploads) *)

\* C24: every uploaded asset has a MIME type of top-level type image or video,
\* its kind is image exactly when the MIME type starts with "image/" and video
\* otherwise, and it comes from a file the user selected; a selected file of
\* another type is never in the collection.
C24_OnlyMediaUploaded ==
    \A k \in 1..Len(app.uploadedFiles) :
        LET asset == app.uploadedFiles[k]
        IN  /\ Len(asset.mimeType) >= 1
            /\ asset.mimeType[1] \in {"image/", "video/"}
            /\ asset.type = "image" <=> asset.mimeType[1] = "image/"
            /\ asset.type = "video" <=> asset.mimeType[1] = "video/"
            /\ asset.name \notin {PdfBlob.name, UntypedBlob.name}
            /\ \E f \in hg.selected : f.name = asset.name /\ f.type = asset.mimeType

C24_Witness ==
    /\ hg.selected = {PngBlob, PdfBlob, Mp4Blob, UntypedBlob}
    /\ \A b \in 1..Len(hg.batches) : hg.batches[b].pending = {}
    /\ Len(app.uploadedFiles) = 2
    /\ app.uploadedFiles[1].type = "video"
    /\ app.uploadedFiles[2].type = "image"
    /\ hg.removed = {}

-----------------------------------------------------------------------------
(* Termination of one Generate request (checked under SpecFair) *)

GenerationStarted == hg.pc \in {"awaitBlueprint", "awaitLayout"}

\* the handler is over, the loading state is cleared, and the run has set
\* exactly one of generationResult and error
GenerationSettled ==
    /\ hg.pc = "done"
    /\ ~ app.isLoading
    /\ app.loadingMessage = <<>>
    /\ app.generationResult.present # (app.error # Null)
    /\ svc.outstanding = 0

\* C25: when every AI-service call eventually returns or throws, a generation
\* that handleGenerate has started eventually ends with isLoading false, the
\* loading message empty, and exactly one of generationResult and error set.
C25_GenerationTerminates == GenerationStarted ~> GenerationSettled

C25_Witness ==
    /\ GenerationSettled
    /\ bp.pc = "settled"
    /\ bp.cleanupThrew
    /\ gen.pc = "settled"
    /\ app.generationResult.present
    /\ app.error = Null

C25_WitnessFailed ==
    /\ GenerationSettled
    /\ bp.pc = "settled"
    /\ gen.pc = "idle"
    /\ app.error = FailedToAnalyze

-----------------------------------------------------------------------------
(* The App over a session: the user edits the inputs, clicks Generate and
   Start Over in any order while runs of handleGenerate are in flight.  Every
   run is an activation of its own; the venue is given by its website, so a run
   has no image to clean or to transform and each stage makes at most its own
   awaits. *)

\* handleGenerate's activations started so far, and whether Start Over was
\* clicked after the last click on Generate
IdleSession == [runs |-> <<>>, resetSince |-> FALSE]

\* the button's `disabled` expression
GenerateDisabled(a) == NothingProvided(a) \/ a.prompt = <<>> \/ a.isLoading

\* the result of the render stage for a blueprint without venue images
NoImagesResult == Result(GenOuterCatch(NoVenueImages, NoBlueprintData).images)

\* handleGenerate up to its await: getEventBlueprint has announced itself and
\* runs into cleanUpImages, which returns at once for an empty list
handleGenerateClicked ==
    /\ IF NothingProvided(app)
       THEN /\ app' = [app EXCEPT !.error = PleaseUpload]
            /\ hg' = [hg EXCEPT !.resetSince = FALSE]
       ELSE IF app.prompt = <<>>
       THEN /\ app' = [app EXCEPT !.error = PleaseDescribe]
            /\ hg' = [hg EXCEPT !.resetSince = FALSE]
       ELSE /\ app' = [app EXCEPT !.isLoading = TRUE, !.error = Null,
                                  !.generationResult = NoResult,
                                  !.loadingMessage = MsgCleaningUp]
            /\ hg' = [hg EXCEPT !.runs = Append(@, [pc |-> "awaitClean"]),
                                !.resetSince = FALSE]

\* getEventBlueprint of run r goes on after cleanUpImages: the text call is issued
runAfterClean(r) ==
    /\ hg.runs[r].pc = "awaitClean"
    /\ hg' = [hg EXCEPT !.runs[r].pc = "awaitText"]
    /\ app' = [app EXCEPT !.loadingMessage = MsgCreatingBlueprint]

\* the text call of run r settles: getEventBlueprint returns, and handleGenerate
\* enters generateLayoutFromBlueprint, or it throws, and handleGenerate runs
\* its catch and finally
runAfterText(r, response) ==
    /\ hg.runs[r].pc = "awaitText"
    /\ IF response.kind = "ok"
       THEN /\ hg' = [hg EXCEPT !.runs[r].pc = "awaitLayout"]
            /\ app' = [app EXCEPT !.loadingMessage = MsgGenerating]
       ELSE /\ hg' = [hg EXCEPT !.runs[r].pc = "done"]
            /\ app' = Finally([app EXCEPT !.error = BlueprintCatch(response.error)])

\* generateLayoutFromBlueprint of run r has returned: setGenerationResult, finally
runAfterLayout(r) ==
    /\ hg.runs[r].pc = "awaitLayout"
    /\ hg' = [hg EXCEPT !.runs[r].pc = "done"]
    /\ app' = Finally([app EXCEPT !.generationResult = NoImagesResult])

\* handleReset
handleReset ==
    /\ app' = [app EXCEPT !.uploadedFiles = <<>>, !.location = NoLocation,
                          !.venueWebsite = <<>>, !.prompt = <<>>,
                          !.generationResult = NoResult, !.error = Null,
                          !.isLoading = FALSE]
    /\ hg' = [hg EXCEPT !.resetSince = TRUE]

InitSession ==
    /\ call = NoCall
    /\ app = IdleApp
    /\ hg = IdleSession
    /\ bp = IdleBlueprint
    /\ cl = IdleClean
    /\ gen = IdleGen
    /\ svc = NoService
    /\ progress = <<>>

EditPrompt ==
    /\ \E prompt \in Prompts : app' = [app EXCEPT !.prompt = prompt]
    /\ UNCHANGED <<hg, bp, cl, gen, svc, progress, call>>

EditWebsite ==
    /\ \E venueWebsite \in Websites : app' = [app EXCEPT !.venueWebsite = venueWebsite]
    /\ UNCHANGED <<hg, bp, cl, gen, svc, progress, call>>

ClickGenerate ==
    /\ ~ GenerateDisabled(app)
    /\ Len(hg.runs) < MaxRuns
    /\ handleGenerateClicked
    /\ UNCHANGED <<bp, cl, gen, svc, progress, call>>

ClickStartOver ==
    /\ handleReset
    /\ UNCHANGED <<bp, cl, gen, svc, progress, call>>

RunResumesAfterClean ==
    /\ \E r \in 1..Len(hg.runs) : runAfterClean(r)
    /\ UNCHANGED <<bp, cl, gen, svc, progress, call>>

RunTextSettles ==
    /\ \E r \in 1..Len(hg.runs), response \in TextResponses : runAfterText(r, response)
    /\ UNCHANGED <<bp, cl, gen, svc, progress, call>>

RunLayoutSettles ==
    /\ \E r \in 1..Len(hg.runs) : runAfterLayout(r)
    /\ UNCHANGED <<bp, cl, gen, svc, progress, call>>

NextSession ==
    \/ EditPrompt
    \/ EditWebsite
    \/ ClickGenerate
    \/ ClickStartOver
    \/ RunResumesAfterClean
    \/ RunTextSettles
    \/ RunLayoutSettles

SpecSession == InitSession /\ [][NextSession]_vars

-----------------------------------------------------------------------------
(* Properties of a session (checked under SpecSession) *)

InFlight == Cardinality({r \in 1..Len(hg.runs) : hg.runs[r].pc # "done"})

\* C26: whatever the user does and whenever the runs complete, at most one
\* pipeline run is in flight, and isLoading is true exactly while one is.
C26_OneRunInFlight ==
    /\ InFlight <= 1
    /\ app.isLoading <=> InFlight = 1

\* C27: after Start Over, generationResult and error stay cleared until the
\* user clicks Generate again, also when a run was in flight at the reset.
C27_ClearedAfterReset ==
    hg.resetSince => (app.generationResult = NoResult /\ app.error = Null)

-----------------------------------------------------------------------------
(* The uploaded files once every read has ended (checked under SpecUploads) *)

AllReadsEnded == \A b \in 1..Len(hg.batches) : hg.batches[b].pending = {}

\* the names of the accepted files the user selected and did not remove
KeptNames == {f.name : f \in {g \in hg.selected : Accepted(g)}} \ hg.removed

\* C28: once every pending read has ended, the uploaded files hold every
\* accepted file the user selected and did not remove exactly once, and no
\* removed file, however reads, further selections and removals interleave.
C28_UploadsComplete ==
    AllReadsEnded =>
        /\ \A name \in KeptNames :
              Cardinality({k \in 1..Len(app.uploadedFiles) :
                              app.uploadedFiles[k].name = name}) = 1
        /\ \A k \in 1..Len(app.uploadedFiles) : app.uploadedFiles[k].name \notin hg.removed

-----------------------------------------------------------------------------
(* The MIME type of a cleaned asset (checked under SpecClean) *)

\* the MIME type a data URL declares in its prefix
DeclaredMime(base64) == base64[2]

\* C29: for every asset cleanUpImages returns, the mimeType field equals the
\* MIME type declared in the prefix of its payload, so the part built from it
\* for the AI service carries the MIME type of the data it carries, also when
\* the service answered in another MIME type than the one sent.
C29_MimeMatchesPayload ==
    cl.pc = "done" =>
        \A k \in 1..Len(cl.ret) :
            /\ cl.ret[k].mimeType = DeclaredMime(cl.ret[k].base64)
            /\ filesToParts(cl.ret)[k].mimeType = DeclaredMime(cl.ret[k].base64)

-----------------------------------------------------------------------------
(* The supported images of a returned Blueprint (checked under Spec) *)

\* C30: every Blueprint getEventBlueprint returns has as many assets of a
\* supported image type in foundFiles as in userFiles; hence the render stage
\* works from the originals only when neither list holds a supported image.
C30_SameSupportedCount ==
    /\ bp.returned =>
          Len(Cleanable(bp.ret.foundFiles)) = Len(Cleanable(bp.ret.userFiles))
    /\ gen.pc \in {"await", "done"} =>
          /\ gen.blueprintData = bp.ret
          /\ Cleanable(gen.blueprintData.foundFiles) = <<>> =>
                Cleanable(gen.blueprintData.userFiles) = <<>>

C30_Witness ==
    /\ bp.returned
    /\ bp.ret.userFiles = <<Mp4File, PngFile>>
    /\ bp.ret.foundFiles = <<CleanedFileFor(PngFile, RespImage), Mp4File>>
    /\ gen.pc = "done"
    /\ gen.venueImages = <<CleanedFileFor(PngFile, RespImage)>>

C30_WitnessNoImages ==
    /\ bp.returned
    /\ bp.ret.userFiles = <<Mp4File>>
    /\ bp.ret.foundFiles = <<Mp4File>>
    /\ gen.pc = "done"
    /\ gen.caught # Null

=============================================================================
